---- MODULE Spec2Model ----
(***************************************************************************)
(* A model of datara (src/src/main.rs): the DataraApp navigation engine,   *)
(* the directory scanner read_dir, the settings store and the marquee text *)
(* layout.                                                                 *)
(*                                                                         *)
(* File names are sequences of bytes (the OsString of a DirEntry); a path  *)
(* is the sequence of its components below the root, so <<>> is "/".       *)
(***************************************************************************)
EXTENDS Integers, Sequences, FiniteSets, TLC

VARIABLES
    fs,                 \* the file system: directory path -> what std::fs::read_dir gives
    current_dir,        \* DataraApp.current_dir
    entries,            \* DataraApp.entries
    history,            \* DataraApp.history (the back stack, top is the last element)
    future,             \* DataraApp.future (the forward stack, top is the last element)
    error,              \* DataraApp.error
    ui_scale,           \* DataraApp.ui_scale
    max_items_per_row,  \* DataraApp.max_items_per_row
    show_scanlines,     \* DataraApp.show_scanlines
    show_hidden,        \* DataraApp.show_hidden
    horizontal_spacing, \* DataraApp.horizontal_spacing
    vertical_spacing,   \* DataraApp.vertical_spacing
    file,               \* read_to_string("datara_settings.txt"): Some(text), or None on failure
    saved,              \* history variable: the std::fs::write of the last save_settings succeeded
    text,               \* get_scrolling_text: the label of the item being laid out
    max_width,          \* get_scrolling_text: the width available to the label (f32)
    font_size,          \* get_scrolling_text: the font size of the label (f32)
    is_hovered,         \* get_scrolling_text: response.hovered() of the item
    time,               \* get_scrolling_text: the clock of the frame, i.time as f32
    display,            \* what get_scrolling_text returned in the last frame, if any
    bytes,              \* format_size: the size of the entry whose metadata is shown (u64)
    size_str,           \* what format_size returned in the last frame, if any
    op,                 \* history variable: the last operation, its arguments and pre-state
    probe               \* history variable: the run of navigate_back / navigate_forward calls

navVars == <<current_dir, entries, history, future, error>>
cfgVars == <<ui_scale, max_items_per_row, show_scanlines, show_hidden,
             horizontal_spacing, vertical_spacing>>
mqVars == <<text, max_width, font_size, is_hovered, time, display>>
sizeVars == <<bytes, size_str>>
vars == <<fs, navVars, cfgVars, file, saved, mqVars, sizeVars, op, probe>>

(***************************************************************************)
(* Bounds.                                                                 *)
(***************************************************************************)
MaxHist == 2
MaxKids == 4
MaxLines == 2
MaxChars == 10
MaxTime == 8

(***************************************************************************)
(* Bytes of the names used below.                                          *)
(***************************************************************************)
DOT == 46
INVALID_BYTE == 255
REPLACEMENT_CHAR == 65533

(* Option and Result of the source. *)
None == [some |-> FALSE]
Some(v) == [some |-> TRUE, val |-> v]
Err == [ok |-> FALSE]
Ok(v) == [ok |-> TRUE, val |-> v]

(***************************************************************************)
(* OsStr::to_str: None unless the bytes are valid UTF-8.  The alphabet of  *)
(* the model is ASCII plus the byte 0xFF, which no valid UTF-8 contains.   *)
(***************************************************************************)
to_str(name) ==
    IF \A i \in 1..Len(name) : name[i] < 128 THEN Some(name) ELSE None

(* OsStr::to_string_lossy: every invalid byte becomes U+FFFD. *)
to_string_lossy(name) ==
    [i \in 1..Len(name) |-> IF name[i] < 128 THEN name[i] ELSE REPLACEMENT_CHAR]

(* str::to_lowercase, on the code points of the alphabet. *)
to_lowercase(s) ==
    [i \in 1..Len(s) |-> IF s[i] >= 65 /\ s[i] <= 90 THEN s[i] + 32 ELSE s[i]]

(* str::starts_with('.') *)
starts_with_dot(s) == Len(s) >= 1 /\ s[1] = DOT

(* Ord for str: lexicographic on code points; -1 Less, 0 Equal, 1 Greater. *)
RECURSIVE str_cmp(_, _)
str_cmp(a, b) ==
    IF a = <<>> /\ b = <<>> THEN 0
    ELSE IF a = <<>> THEN -1
    ELSE IF b = <<>> THEN 1
    ELSE IF Head(a) < Head(b) THEN -1
    ELSE IF Head(a) > Head(b) THEN 1
    ELSE str_cmp(Tail(a), Tail(b))

(* a.metadata().as_ref().map(|m| m.is_dir()).unwrap_or(false) *)
is_dir(e) == e.meta = "dir"

(* A comparison that forgets to lower-case the names. *)
sort_cmp_case_sensitive(a, b) ==
    IF is_dir(a) /\ ~is_dir(b) THEN -1
    ELSE IF ~is_dir(a) /\ is_dir(b) THEN 1
    ELSE str_cmp(to_string_lossy(a.name), to_string_lossy(b.name))

(* The closure given to sort_by in read_dir. *)
sort_cmp(a, b) ==
    IF is_dir(a) /\ ~is_dir(b) THEN -1
    ELSE IF ~is_dir(a) /\ is_dir(b) THEN 1
    ELSE str_cmp(to_lowercase(to_string_lossy(a.name)),
                 to_lowercase(to_string_lossy(b.name)))

(* slice::sort_by is a stable sort: equal elements keep their order. *)
RECURSIVE insert_sorted(_, _)
insert_sorted(x, s) ==
    IF s = <<>> THEN <<x>>
    ELSE IF sort_cmp(x, Head(s)) < 0 THEN <<x>> \o s
    ELSE <<Head(s)>> \o insert_sorted(x, Tail(s))

RECURSIVE sort_by(_)
sort_by(s) ==
    IF s = <<>> THEN <<>>
    ELSE insert_sorted(s[Len(s)], sort_by(SubSeq(s, 1, Len(s) - 1)))

(* The loop of read_dir that skips the hidden entries. *)
is_skipped(e, hidden) ==
    /\ ~hidden
    /\ to_str(e.name).some
    /\ starts_with_dot(to_str(e.name).val)

RECURSIVE push_visible(_, _)
push_visible(kids, hidden) ==
    IF kids = <<>> THEN <<>>
    ELSE IF is_skipped(Head(kids), hidden) THEN push_visible(Tail(kids), hidden)
    ELSE <<Head(kids)>> \o push_visible(Tail(kids), hidden)

(* DataraApp::read_dir as a function of the directory and the flag. *)
read_dir(fsys, dir, hidden) ==
    IF dir \in DOMAIN fsys /\ fsys[dir].ok
    THEN [entries |-> sort_by(push_visible(fsys[dir].kids, hidden)), error |-> None]
    ELSE [entries |-> <<>>, error |-> Some("Failed to read dir")]

(* Path::parent of an absolute path: None at the root. *)
parent(p) == IF p = <<>> THEN None ELSE Some(SubSeq(p, 1, Len(p) - 1))

(***************************************************************************)
(* The settings file.  Text is a sequence of one-character strings.  An    *)
(* f32 of the settings is the decimal number it is nearest to:             *)
(* digits * 10^(-scale), in lowest form (digits not a multiple of ten      *)
(* unless zero).  Decimals of up to six significant digits name distinct   *)
(* f32 values (FLT_DIG = 6), and the shortest decimal that Display prints  *)
(* for such a value is that decimal.                                       *)
(***************************************************************************)
Digits == <<"0", "1", "2", "3", "4", "5", "6", "7", "8", "9">>
IsDigit(c) == \E i \in 1..10 : Digits[i] = c
DigitVal(c) == (CHOOSE i \in 1..10 : Digits[i] = c) - 1

I32_MAX == 2147483647

NaN == [k |-> "nan"]
Inf(neg) == [k |-> "inf", neg |-> neg]

RECURSIVE Normalize(_, _, _)
Normalize(neg, digits, scale) ==
    IF digits = 0 THEN [k |-> "num", neg |-> neg, digits |-> 0, scale |-> 0]
    ELSE IF digits % 10 = 0 THEN Normalize(neg, digits \div 10, scale - 1)
    ELSE [k |-> "num", neg |-> neg, digits |-> digits, scale |-> scale]

Dec(digits, scale) == Normalize(FALSE, digits, scale)

(* PartialEq for f32: NaN equals nothing, -0.0 equals 0.0. *)
f32_eq(a, b) ==
    /\ a.k # "nan"
    /\ b.k # "nan"
    /\ \/ a = b
       \/ a.k = "num" /\ b.k = "num" /\ a.digits = 0 /\ b.digits = 0

RECURSIVE fmt_uint(_)
fmt_uint(n) == IF n < 10 THEN <<Digits[n + 1]>> ELSE fmt_uint(n \div 10) \o <<Digits[(n % 10) + 1]>>

RECURSIVE zeros(_)
zeros(n) == IF n <= 0 THEN <<>> ELSE <<"0">> \o zeros(n - 1)

(* Display for i32 *)
fmt_i32(n) == IF n < 0 THEN <<"-">> \o fmt_uint(0 - n) ELSE fmt_uint(n)

(* Display for bool *)
fmt_bool(b) == IF b THEN <<"t", "r", "u", "e">> ELSE <<"f", "a", "l", "s", "e">>

(* A Display for f32 that prints the integer part only. *)
fmt_f32_integer_part(v) ==
    IF v.k = "nan" THEN <<"N", "a", "N">>
    ELSE IF v.k = "inf" THEN (IF v.neg THEN <<"-">> ELSE <<>>) \o <<"i", "n", "f">>
    ELSE (IF v.neg THEN <<"-">> ELSE <<>>)
         \o (IF v.scale <= 0 THEN fmt_uint(v.digits) \o zeros(0 - v.scale)
             ELSE IF Len(fmt_uint(v.digits)) > v.scale
                  THEN SubSeq(fmt_uint(v.digits), 1, Len(fmt_uint(v.digits)) - v.scale)
                  ELSE <<"0">>)

(* Display for f32: no exponent, no trailing ".0". *)
fmt_f32(v) ==
    IF v.k = "nan" THEN <<"N", "a", "N">>
    ELSE IF v.k = "inf" THEN (IF v.neg THEN <<"-">> ELSE <<>>) \o <<"i", "n", "f">>
    ELSE LET sign == IF v.neg THEN <<"-">> ELSE <<>>
             ds   == fmt_uint(v.digits)
         IN  IF v.scale <= 0 THEN sign \o ds \o zeros(0 - v.scale)
             ELSE IF Len(ds) > v.scale
                  THEN sign \o SubSeq(ds, 1, Len(ds) - v.scale) \o <<".">>
                            \o SubSeq(ds, Len(ds) - v.scale + 1, Len(ds))
                  ELSE sign \o <<"0", ".">> \o zeros(v.scale - Len(ds)) \o ds

(* The value of a string of digits, Err when it exceeds lim. *)
RECURSIVE digits_value(_, _, _)
digits_value(s, acc, lim) ==
    IF s = <<>> THEN Ok(acc)
    ELSE IF ~IsDigit(Head(s)) THEN Err
    ELSE IF acc > (lim - DigitVal(Head(s))) \div 10 THEN Err
    ELSE digits_value(Tail(s), 10 * acc + DigitVal(Head(s)), lim)

(* The same for a negative number, accumulated downwards to i32::MIN. *)
RECURSIVE neg_digits_value(_, _)
neg_digits_value(s, acc) ==
    IF s = <<>> THEN Ok(acc)
    ELSE IF ~IsDigit(Head(s)) THEN Err
    ELSE IF acc < ((0 - I32_MAX) - 1 + DigitVal(Head(s)) + 9) \div 10 THEN Err
    ELSE neg_digits_value(Tail(s), 10 * acc - DigitVal(Head(s)))

(* The optional sign that parse::<i32> and parse::<f32> accept. *)
is_neg(s) == s # <<>> /\ Head(s) = "-"
strip_sign(s) == IF s # <<>> /\ Head(s) \in {"-", "+"} THEN Tail(s) ELSE s

(* str::parse::<i32>: [+|-] digits, Err on overflow. *)
parse_i32(s) ==
    IF strip_sign(s) = <<>> THEN Err
    ELSE IF is_neg(s) THEN neg_digits_value(strip_sign(s), 0)
    ELSE digits_value(strip_sign(s), 0, I32_MAX)

(* str::parse::<bool> *)
parse_bool(s) ==
    IF s = <<"t", "r", "u", "e">> THEN Ok(TRUE)
    ELSE IF s = <<"f", "a", "l", "s", "e">> THEN Ok(FALSE)
    ELSE Err

ascii_lower(c) ==
    CASE c = "I" -> "i" [] c = "N" -> "n" [] c = "F" -> "f" [] c = "A" -> "a"
      [] c = "T" -> "t" [] c = "Y" -> "y" [] OTHER -> c

lower(s) == [i \in 1..Len(s) |-> ascii_lower(s[i])]

(* The longest prefix of digits. *)
RECURSIVE digit_prefix_len(_)
digit_prefix_len(s) ==
    IF s = <<>> \/ ~IsDigit(Head(s)) THEN 0 ELSE 1 + digit_prefix_len(Tail(s))

(* The parts of a decimal literal: digits [. digits] [e [sign] digits]. *)
int_len(body) == digit_prefix_len(body)
after_int(body) == SubSeq(body, int_len(body) + 1, Len(body))
has_dot(body) == after_int(body) # <<>> /\ Head(after_int(body)) = "."
frac_len(body) == IF has_dot(body) THEN digit_prefix_len(Tail(after_int(body))) ELSE 0
mantissa(body) ==
    SubSeq(body, 1, int_len(body))
    \o (IF has_dot(body) THEN SubSeq(Tail(after_int(body)), 1, frac_len(body)) ELSE <<>>)
after_frac(body) ==
    IF has_dot(body)
    THEN SubSeq(after_int(body), frac_len(body) + 2, Len(after_int(body)))
    ELSE after_int(body)

(* The exponent part: nothing, or e [sign] digits (here of one digit). *)
exponent(r) ==
    IF r = <<>> THEN Ok(0)
    ELSE IF Head(r) \notin {"e", "E"} \/ strip_sign(Tail(r)) = <<>> THEN Err
    ELSE IF ~digits_value(strip_sign(Tail(r)), 0, 9).ok THEN Err
    ELSE IF is_neg(Tail(r)) THEN Ok(0 - digits_value(strip_sign(Tail(r)), 0, 9).val)
    ELSE Ok(digits_value(strip_sign(Tail(r)), 0, 9).val)

(* The decimal literal body with the sign neg, of at most nine digits. *)
parse_decimal(neg, body) ==
    IF int_len(body) + frac_len(body) = 0 THEN Err
    ELSE IF ~exponent(after_frac(body)).ok THEN Err
    ELSE IF ~digits_value(mantissa(body), 0, 999999999).ok THEN Err
    ELSE Ok(Normalize(neg, digits_value(mantissa(body), 0, 999999999).val,
                      frac_len(body) - exponent(after_frac(body)).val))

(* str::parse::<f32>: [sign] (inf | infinity | nan | decimal literal) *)
parse_f32(s) ==
    IF lower(strip_sign(s)) \in {<<"i", "n", "f">>, <<"i", "n", "f", "i", "n", "i", "t", "y">>}
    THEN Ok(Inf(is_neg(s)))
    ELSE IF lower(strip_sign(s)) = <<"n", "a", "n">> THEN Ok(NaN)
    ELSE parse_decimal(is_neg(s), strip_sign(s))

(* i32::clamp(2, 5) *)
(* A clamp that forgets the lower bound. *)
clamp_upper_only(v, lo, hi) == IF v > hi THEN hi ELSE v

clamp(v, lo, hi) == IF v < lo THEN lo ELSE IF v > hi THEN hi ELSE v

K_ui_scale == <<"u", "i", "_", "s", "c", "a", "l", "e">>
K_max_items_per_row == <<"m", "a", "x", "_", "i", "t", "e", "m", "s", "_",
                         "p", "e", "r", "_", "r", "o", "w">>
K_show_scanlines == <<"s", "h", "o", "w", "_", "s", "c", "a", "n", "l", "i", "n", "e", "s">>
K_show_hidden == <<"s", "h", "o", "w", "_", "h", "i", "d", "d", "e", "n">>
K_horizontal_spacing == <<"h", "o", "r", "i", "z", "o", "n", "t", "a", "l", "_",
                          "s", "p", "a", "c", "i", "n", "g">>
K_vertical_spacing == <<"v", "e", "r", "t", "i", "c", "a", "l", "_",
                        "s", "p", "a", "c", "i", "n", "g">>

(* The field values DataraApp::new starts from. *)
Defaults ==
    [ui_scale |-> Dec(1, 0), max_items_per_row |-> 3, show_scanlines |-> FALSE,
     show_hidden |-> FALSE, horizontal_spacing |-> Dec(16, 0), vertical_spacing |-> Dec(12, 0)]

(* The settings fields of the current state, as a record. *)
Config ==
    [ui_scale |-> ui_scale, max_items_per_row |-> max_items_per_row,
     show_scanlines |-> show_scanlines, show_hidden |-> show_hidden,
     horizontal_spacing |-> horizontal_spacing, vertical_spacing |-> vertical_spacing]

(* The text save_settings formats. *)
settings_text(c) ==
    K_ui_scale \o <<"=">> \o fmt_f32(c.ui_scale) \o <<"\n">>
    \o K_max_items_per_row \o <<"=">> \o fmt_i32(c.max_items_per_row) \o <<"\n">>
    \o K_show_scanlines \o <<"=">> \o fmt_bool(c.show_scanlines) \o <<"\n">>
    \o K_show_hidden \o <<"=">> \o fmt_bool(c.show_hidden) \o <<"\n">>
    \o K_horizontal_spacing \o <<"=">> \o fmt_f32(c.horizontal_spacing) \o <<"\n">>
    \o K_vertical_spacing \o <<"=">> \o fmt_f32(c.vertical_spacing) \o <<"\n">>

(* The index of the first c in s, 0 when there is none. *)
RECURSIVE find(_, _, _)
find(s, c, i) ==
    IF i > Len(s) THEN 0 ELSE IF s[i] = c THEN i ELSE find(s, c, i + 1)

(* str::lines: split at "\n", drop one trailing "\r", no last empty line. *)
RECURSIVE lines(_)
lines(s) ==
    IF s = <<>> THEN <<>>
    ELSE LET n    == find(s, "\n", 1)
             raw  == IF n = 0 THEN s ELSE SubSeq(s, 1, n - 1)
             line == IF raw # <<>> /\ raw[Len(raw)] = "\r"
                     THEN SubSeq(raw, 1, Len(raw) - 1) ELSE raw
             rest == IF n = 0 THEN <<>> ELSE SubSeq(s, n + 1, Len(s))
         IN  <<line>> \o lines(rest)

(* A loop body that puts a field back to its default when its value does not parse. *)
load_line_resets(c, line) ==
    LET n     == find(line, "=", 1)
        key   == SubSeq(line, 1, n - 1)
        value == SubSeq(line, n + 1, Len(line))
    IN  IF n = 0 THEN c
        ELSE IF key = K_ui_scale
             THEN (IF parse_f32(value).ok
                   THEN [c EXCEPT !.ui_scale = parse_f32(value).val]
                   ELSE [c EXCEPT !.ui_scale = Defaults.ui_scale])
        ELSE IF key = K_max_items_per_row
             THEN (IF parse_i32(value).ok
                   THEN [c EXCEPT !.max_items_per_row = clamp(parse_i32(value).val, 2, 5)]
                   ELSE [c EXCEPT !.max_items_per_row = Defaults.max_items_per_row])
        ELSE IF key = K_show_scanlines
             THEN (IF parse_bool(value).ok
                   THEN [c EXCEPT !.show_scanlines = parse_bool(value).val]
                   ELSE [c EXCEPT !.show_scanlines = Defaults.show_scanlines])
        ELSE IF key = K_show_hidden
             THEN (IF parse_bool(value).ok
                   THEN [c EXCEPT !.show_hidden = parse_bool(value).val]
                   ELSE [c EXCEPT !.show_hidden = Defaults.show_hidden])
        ELSE IF key = K_horizontal_spacing
             THEN (IF parse_f32(value).ok
                   THEN [c EXCEPT !.horizontal_spacing = parse_f32(value).val]
                   ELSE [c EXCEPT !.horizontal_spacing = Defaults.horizontal_spacing])
        ELSE IF key = K_vertical_spacing
             THEN (IF parse_f32(value).ok
                   THEN [c EXCEPT !.vertical_spacing = parse_f32(value).val]
                   ELSE [c EXCEPT !.vertical_spacing = Defaults.vertical_spacing])
        ELSE c

(* The body of the loop of load_settings, for one line. *)
load_line(c, line) ==
    LET n     == find(line, "=", 1)
        key   == SubSeq(line, 1, n - 1)
        value == SubSeq(line, n + 1, Len(line))
    IN  IF n = 0 THEN c
        ELSE IF key = K_ui_scale
             THEN (IF parse_f32(value).ok
                   THEN [c EXCEPT !.ui_scale = parse_f32(value).val] ELSE c)
        ELSE IF key = K_max_items_per_row
             THEN (IF parse_i32(value).ok
                   THEN [c EXCEPT !.max_items_per_row = clamp(parse_i32(value).val, 2, 5)] ELSE c)
        ELSE IF key = K_show_scanlines
             THEN (IF parse_bool(value).ok
                   THEN [c EXCEPT !.show_scanlines = parse_bool(value).val] ELSE c)
        ELSE IF key = K_show_hidden
             THEN (IF parse_bool(value).ok
                   THEN [c EXCEPT !.show_hidden = parse_bool(value).val] ELSE c)
        ELSE IF key = K_horizontal_spacing
             THEN (IF parse_f32(value).ok
                   THEN [c EXCEPT !.horizontal_spacing = parse_f32(value).val] ELSE c)
        ELSE IF key = K_vertical_spacing
             THEN (IF parse_f32(value).ok
                   THEN [c EXCEPT !.vertical_spacing = parse_f32(value).val] ELSE c)
        ELSE c

RECURSIVE load_lines(_, _)
load_lines(c, ls) ==
    IF ls = <<>> THEN c ELSE load_lines(load_line(c, Head(ls)), Tail(ls))

(* DataraApp::load_settings: the fields after loading contents into c. *)
load_settings(c, contents) ==
    IF contents.some THEN load_lines(c, lines(contents.val)) ELSE c

(***************************************************************************)
(* The navigation engine.                                                  *)
(***************************************************************************)
N_a == <<97>>
N_b == <<98>>
N_c == <<99>>
N_f == <<102>>
N_x == <<120>>
N_dot_h == <<DOT, 104>>

Entry(name, meta) == [name |-> name, meta |-> meta]
Listing(kids) == [ok |-> TRUE, kids |-> kids]
Unreadable == [ok |-> FALSE]

(* The directories of the navigation runs: /, /a, /a/b, /a/b/c and /x,    *)
(* which cannot be opened.  The children are in the order the OS returns. *)
Tree ==
    (<<>> :> Listing(<<Entry(N_dot_h, "file"), Entry(N_x, "dir"), Entry(N_a, "dir")>>))
    @@ (<<N_a>> :> Listing(<<Entry(N_f, "file"), Entry(N_b, "dir")>>))
    @@ (<<N_a, N_b>> :> Listing(<<Entry(N_c, "dir")>>))
    @@ (<<N_a, N_b, N_c>> :> Listing(<<>>))
    @@ (<<N_x>> :> Unreadable)

Dirs == DOMAIN Tree

(* The settings files the navigation runs start with. *)
StartFiles ==
    {None, Some(K_show_hidden \o <<"=">> \o fmt_bool(TRUE) \o <<"\n">>)}

(* The navigation fields of the current state, as a record. *)
Nav ==
    [current_dir |-> current_dir, entries |-> entries, history |-> history,
     future |-> future, error |-> error]

NoOp == [name |-> "new", path |-> None, push |-> FALSE, pre |-> None]
Call(name, path, push) == [name |-> name, path |-> path, push |-> push, pre |-> Nav]

NoProbe == [active |-> FALSE, pre |-> None, backs |-> 0, fwds |-> 0]

(* self.read_dir() with the current_dir set to dir. *)
ReadDir(dir) ==
    /\ entries' = read_dir(fs, dir, show_hidden).entries
    /\ error' = read_dir(fs, dir, show_hidden).error

(* A navigate_to that forgets to clear the forward stack. *)
navigate_to_keeps_future(path, push_history) ==
    /\ history' = IF push_history THEN Append(history, current_dir) ELSE history
    /\ future' = future
    /\ current_dir' = path
    /\ ReadDir(path)

(* DataraApp::navigate_to *)
navigate_to(path, push_history) ==
    /\ history' = IF push_history THEN Append(history, current_dir) ELSE history
    /\ future' = IF push_history THEN <<>> ELSE future
    /\ current_dir' = path
    /\ ReadDir(path)

(* A navigate_up that does not record the history. *)
navigate_up_unrecorded ==
    IF parent(current_dir).some
    THEN navigate_to(parent(current_dir).val, FALSE)
    ELSE UNCHANGED navVars

(* DataraApp::navigate_up *)
navigate_up ==
    IF parent(current_dir).some
    THEN navigate_to(parent(current_dir).val, TRUE)
    ELSE UNCHANGED navVars

(* A navigate_back that forgets the forward stack it had. *)
navigate_back_drops_future ==
    IF history # <<>>
    THEN /\ history' = SubSeq(history, 1, Len(history) - 1)
         /\ future' = <<current_dir>>
         /\ current_dir' = history[Len(history)]
         /\ ReadDir(history[Len(history)])
    ELSE UNCHANGED navVars

(* DataraApp::navigate_back *)
navigate_back ==
    IF history # <<>>
    THEN /\ history' = SubSeq(history, 1, Len(history) - 1)
         /\ future' = Append(future, current_dir)
         /\ current_dir' = history[Len(history)]
         /\ ReadDir(history[Len(history)])
    ELSE UNCHANGED navVars

(* A navigate_forward that does not push the Location it leaves. *)
navigate_forward_no_push ==
    IF future # <<>>
    THEN /\ future' = SubSeq(future, 1, Len(future) - 1)
         /\ history' = history
         /\ current_dir' = future[Len(future)]
         /\ ReadDir(future[Len(future)])
    ELSE UNCHANGED navVars

(* A navigate_forward that pushes the Location it goes to, not the one it  *)
(* leaves. *)
navigate_forward_pushes_next ==
    IF future # <<>>
    THEN /\ future' = SubSeq(future, 1, Len(future) - 1)
         /\ history' = Append(history, future[Len(future)])
         /\ current_dir' = future[Len(future)]
         /\ ReadDir(future[Len(future)])
    ELSE UNCHANGED navVars

(* DataraApp::navigate_forward *)
navigate_forward ==
    IF future # <<>>
    THEN /\ future' = SubSeq(future, 1, Len(future) - 1)
         /\ history' = Append(history, current_dir)
         /\ current_dir' = future[Len(future)]
         /\ ReadDir(future[Len(future)])
    ELSE UNCHANGED navVars

(* The record of a frame of DataraApp::update: the settings, the settings  *)
(* file and the error before it. *)
CfgCall(name) ==
    [name |-> name, path |-> None, push |-> FALSE,
     pre |-> [config |-> Config, file |-> file, error |-> error]]

(* The record of a frame in which a widget of the settings window is used *)
(* (and gives value, if it is a slider). *)
WidgetCall(name, value) == [name |-> name, path |-> value, push |-> FALSE, pre |-> None]

(* A save_settings that runs before the settings window of the frame. *)
save_settings_before_window ==
    \/ /\ file' = Some(settings_text(Config))
       /\ saved' = TRUE
    \/ /\ file' = file
       /\ saved' = FALSE

(* The end of DataraApp::update: save_settings, whose write may fail. *)
SaveSettings ==
    \/ /\ file' = Some(settings_text(Config'))
       /\ saved' = TRUE
    \/ /\ file' = file
       /\ saved' = FALSE

(***************************************************************************)
(* The operations of the navigation engine.  op records the call and the   *)
(* state it was made in; probe counts the navigate_back calls of a run and *)
(* the navigate_forward calls that follow them.  The history is bounded by *)
(* MaxHist.                                                                *)
(***************************************************************************)
NavigateTo(path, push_history) ==
    /\ push_history => Len(history) < MaxHist
    /\ navigate_to(path, push_history)
    /\ op' = Call("navigate_to", path, push_history)
    /\ probe' = NoProbe
    /\ UNCHANGED <<fs, cfgVars, mqVars, sizeVars>>
    /\ SaveSettings

NavigateUp ==
    /\ Len(history) < MaxHist
    /\ navigate_up
    /\ op' = Call("navigate_up", None, TRUE)
    /\ probe' = NoProbe
    /\ UNCHANGED <<fs, cfgVars, mqVars, sizeVars>>
    /\ SaveSettings

NavigateBack ==
    /\ navigate_back
    /\ probe' = IF history = <<>> THEN NoProbe
                ELSE IF probe.active /\ probe.fwds = 0
                THEN [probe EXCEPT !.backs = @ + 1]
                ELSE [active |-> TRUE, pre |-> Nav, backs |-> 1, fwds |-> 0]
    /\ op' = Call("navigate_back", None, FALSE)
    /\ UNCHANGED <<fs, cfgVars, mqVars, sizeVars>>
    /\ SaveSettings

NavigateForward ==
    /\ navigate_forward
    /\ probe' = IF future # <<>> /\ probe.active /\ probe.fwds < probe.backs
                THEN [probe EXCEPT !.fwds = @ + 1]
                ELSE NoProbe
    /\ op' = Call("navigate_forward", None, FALSE)
    /\ UNCHANGED <<fs, cfgVars, mqVars, sizeVars>>
    /\ SaveSettings

(* No item has been laid out yet. *)
NoLabel ==
    /\ text = <<>>
    /\ max_width = [m |-> 0, e |-> 0]
    /\ font_size = [m |-> 0, e |-> 0]
    /\ is_hovered = FALSE
    /\ time = [m |-> 0, e |-> 0]
    /\ display = None

(* No metadata line has been formatted yet. *)
NoSize ==
    /\ bytes = <<>>
    /\ size_str = None

(* DataraApp::new: read_dir with the default fields, then load_settings. *)
new(fsys, start_dir, contents) ==
    [current_dir |-> start_dir,
     entries |-> read_dir(fsys, start_dir, Defaults.show_hidden).entries,
     error |-> read_dir(fsys, start_dir, Defaults.show_hidden).error,
     history |-> <<>>,
     future |-> <<>>,
     config |-> load_settings(Defaults, contents)]

(* The state of a session started in start_dir with the settings file contents. *)
New(start_dir, contents) ==
    LET app == new(fs, start_dir, contents)
    IN  /\ current_dir = app.current_dir
        /\ entries = app.entries
        /\ error = app.error
        /\ history = app.history
        /\ future = app.future
        /\ ui_scale = app.config.ui_scale
        /\ max_items_per_row = app.config.max_items_per_row
        /\ show_scanlines = app.config.show_scanlines
        /\ show_hidden = app.config.show_hidden
        /\ horizontal_spacing = app.config.horizontal_spacing
        /\ vertical_spacing = app.config.vertical_spacing
        /\ file = contents
        /\ saved = FALSE

Init ==
    /\ fs = Tree
    /\ \E start_dir \in Dirs, contents \in StartFiles : New(start_dir, contents)
    /\ NoLabel
    /\ NoSize
    /\ op = NoOp
    /\ probe = NoProbe

Next ==
    \/ \E path \in Dirs, push_history \in BOOLEAN : NavigateTo(path, push_history)
    \/ NavigateUp
    \/ NavigateBack
    \/ NavigateForward

Spec == Init /\ [][Next]_vars

(***************************************************************************)
(* The claims about the navigation engine.                                 *)
(***************************************************************************)

ListedName(e) == to_string_lossy(e.name)
SortKey(e) == to_lowercase(ListedName(e))
InListing(e, listing) == \E i \in 1..Len(listing) : listing[i] = e

(* C1: when the scan of the path given to navigate_to fails, the Location, *)
(* the back stack and the forward stack are what they were before the call. *)
C1_AtomicNavigation ==
    (op.name = "navigate_to" /\ error.some) =>
        /\ current_dir = op.pre.current_dir
        /\ history = op.pre.history
        /\ future = op.pre.future

(* C2: k navigate_back calls followed by k navigate_forward calls leave the *)
(* Location where it was before the backs, and both stacks at the depths    *)
(* they had.                                                                 *)
C2_HistorySymmetry ==
    (probe.active /\ probe.fwds = probe.backs) =>
        /\ current_dir = probe.pre.current_dir
        /\ Len(history) = Len(probe.pre.history)
        /\ Len(future) = Len(probe.pre.future)

C2_Witness ==
    /\ probe.active
    /\ probe.backs = 2
    /\ probe.fwds = 2
    /\ op.name = "navigate_forward"

(* C3: navigate_to(path, true) empties the forward stack and pushes the     *)
(* Location it leaves on top of the back stack; a navigate_forward right    *)
(* after it changes nothing.                                                 *)
C3_ForwardClear ==
    [][/\ (op'.name = "navigate_to" /\ op'.push) =>
            /\ future' = <<>>
            /\ history' = Append(history, current_dir)
       /\ (op.name = "navigate_to" /\ op.push /\ op'.name = "navigate_forward") =>
            Nav' = Nav]_vars

C3_Witness ==
    /\ op.name = "navigate_to"
    /\ op.push
    /\ op.pre.future # <<>>
    /\ future = <<>>

(* C9: navigate_up from a Location with a parent pushes the Location on the *)
(* back stack, empties the forward stack, makes the parent the Location and *)
(* scans it; from the root it changes nothing.                              *)
C9_NavigateUp ==
    op.name = "navigate_up" =>
        IF op.pre.current_dir # <<>>
        THEN /\ current_dir = SubSeq(op.pre.current_dir, 1, Len(op.pre.current_dir) - 1)
             /\ history = Append(op.pre.history, op.pre.current_dir)
             /\ future = <<>>
             /\ entries = read_dir(fs, current_dir, show_hidden).entries
             /\ error = read_dir(fs, current_dir, show_hidden).error
        ELSE Nav = op.pre

(* from /a/b: navigate_to(/a/b/c, true), navigate_up *)
C9_Witness ==
    /\ op.name = "navigate_up"
    /\ op.pre.history = <<(<<N_a, N_b>>)>>
    /\ current_dir = <<N_a, N_b>>
    /\ history = <<(<<N_a, N_b>>), (<<N_a, N_b, N_c>>)>>

(* C11: navigate_back with an empty back stack changes nothing; otherwise  *)
(* the top of the back stack becomes the Location, the Location it leaves  *)
(* goes on top of the forward stack, whose other elements stay, the back   *)
(* stack loses its top element and the new Location is scanned.            *)
C11_NavigateBack ==
    op.name = "navigate_back" =>
        IF op.pre.history = <<>>
        THEN Nav = op.pre
        ELSE /\ current_dir = op.pre.history[Len(op.pre.history)]
             /\ future = Append(op.pre.future, op.pre.current_dir)
             /\ history = SubSeq(op.pre.history, 1, Len(op.pre.history) - 1)
             /\ entries = read_dir(fs, current_dir, show_hidden).entries
             /\ error = read_dir(fs, current_dir, show_hidden).error

(* the second of two navigate_back calls: both stacks are non-empty *)
C11_Witness ==
    /\ op.name = "navigate_back"
    /\ op.pre.history # <<>>
    /\ op.pre.future # <<>>
    /\ op.pre.current_dir # current_dir
    /\ Len(future) = 2

(* C12: navigate_forward with an empty forward stack changes nothing;      *)
(* otherwise the top of the forward stack becomes the Location, the        *)
(* Location it leaves goes on top of the back stack, whose other elements  *)
(* stay, and the forward stack loses its top element.  The forward stack   *)
(* grows only in navigate_back and shrinks only in navigate_forward and in *)
(* a recorded navigate_to (navigate_up makes one).                         *)
C12_NavigateForward ==
    [][/\ op'.name = "navigate_forward" =>
            IF future = <<>>
            THEN Nav' = Nav
            ELSE /\ current_dir' = future[Len(future)]
                 /\ history' = Append(history, current_dir)
                 /\ future' = SubSeq(future, 1, Len(future) - 1)
       /\ Len(future') > Len(future) => op'.name = "navigate_back"
       /\ Len(future') < Len(future) =>
            \/ op'.name = "navigate_forward"
            \/ op'.name = "navigate_to" /\ op'.push
            \/ op'.name = "navigate_up"]_vars

(* a navigate_forward onto a back stack that is not empty *)
C12_Witness ==
    /\ op.name = "navigate_forward"
    /\ op.pre.future # <<>>
    /\ op.pre.history # <<>>
    /\ op.pre.current_dir # current_dir
    /\ Len(history) = 2

(* C13: when the scan of the Location that navigate_back or                *)
(* navigate_forward goes to fails, the Location and both stacks are what   *)
(* they were before the call.                                              *)
C13_FailedScanKeepsHistory ==
    (op.name \in {"navigate_back", "navigate_forward"} /\ error.some) =>
        /\ current_dir = op.pre.current_dir
        /\ history = op.pre.history
        /\ future = op.pre.future

(* The directory that the last operation scanned, if it scanned one. *)
ScanTarget ==
    IF op.name = "navigate_to" THEN Some(op.path)
    ELSE IF op.name = "navigate_up" THEN parent(op.pre.current_dir)
    ELSE IF op.name = "navigate_back" /\ op.pre.history # <<>>
    THEN Some(op.pre.history[Len(op.pre.history)])
    ELSE IF op.name = "navigate_forward" /\ op.pre.future # <<>>
    THEN Some(op.pre.future[Len(op.pre.future)])
    ELSE None

ScanFailed == ScanTarget.some /\ ~fs[ScanTarget.val].ok

(* C14: after an operation whose scan fails the listing is the one shown   *)
(* before the operation, an error message is set, and the Location is not  *)
(* left at a directory whose scan failed.                                  *)
C14_ListingRetained ==
    ScanFailed =>
        /\ entries = op.pre.entries
        /\ error.some
        /\ fs[op.pre.current_dir].ok => fs[current_dir].ok

(* C19: in every state, start-up included, when the last scan succeeded    *)
(* the listing holds the children of the Location whose names start with   *)
(* '.' exactly when show_hidden is on.                                     *)
C19_ListingMatchesFlag ==
    (~error.some /\ fs[current_dir].ok) =>
        \A i \in 1..Len(fs[current_dir].kids) :
            starts_with_dot(fs[current_dir].kids[i].name)
                => (InListing(fs[current_dir].kids[i], entries) <=> show_hidden)

(***************************************************************************)
(* The directory scanner on its own: one directory with any children, in   *)
(* any order, scanned with the flag on and off.                            *)
(***************************************************************************)
N_A == <<65>>
N_B == <<66>>
N_a_txt == <<97, 46, 116, 120, 116>>
N_b_txt == <<98, 46, 116, 120, 116>>
N_dot_hidden == <<DOT, 104, 105, 100, 100, 101, 110>>
N_dot_invalid == <<DOT, INVALID_BYTE>>

(* The names a child can have: "A", "B", "a.txt", "b.txt", ".hidden" and   *)
(* the two bytes 2E FF, which are not UTF-8.                               *)
ChildNames == {N_A, N_B, N_a_txt, N_b_txt, N_dot_hidden, N_dot_invalid}

(* What metadata() says of a child: a directory or something else; for the *)
(* child "B", a directory or an error.                                      *)
Metas(name) == IF name = N_B THEN {"dir", "err"} ELSE {"dir", "file"}

Children == UNION {{Entry(name, meta) : meta \in Metas(name)} : name \in ChildNames}

(* The sequences of at most n children. *)
RECURSIVE ChildSeqs(_)
ChildSeqs(n) ==
    IF n = 0 THEN {<<>>}
    ELSE LET shorter == ChildSeqs(n - 1)
         IN  shorter \cup
             {Append(k, e) : k \in {q \in shorter : Len(q) = n - 1}, e \in Children}

DistinctNames(kids) ==
    \A i, j \in 1..Len(kids) : kids[i].name = kids[j].name => i = j

ScanDirs ==
    {Unreadable} \cup {Listing(kids) : kids \in {q \in ChildSeqs(MaxKids) : DistinctNames(q)}}

(* The "Hidden Files" checkbox of the settings window, and the rest of the frame. *)
ToggleHidden ==
    /\ show_hidden' = ~show_hidden
    /\ entries' = read_dir(fs, current_dir, show_hidden').entries
    /\ error' = read_dir(fs, current_dir, show_hidden').error
    /\ UNCHANGED <<fs, current_dir, history, future, ui_scale, max_items_per_row,
                   show_scanlines, horizontal_spacing, vertical_spacing, mqVars, sizeVars>>
    /\ SaveSettings
    /\ op' = CfgCall("toggle_hidden")
    /\ probe' = NoProbe

InitScan ==
    /\ fs \in {(<<>> :> d) : d \in ScanDirs}
    /\ New(<<>>, None)
    /\ NoLabel
    /\ NoSize
    /\ op = NoOp
    /\ probe = NoProbe

NextScan == ToggleHidden

SpecScan == InitScan /\ [][NextScan]_vars

(***************************************************************************)
(* The claims about the directory scanner.                                 *)
(***************************************************************************)

(* C4: a listing has every Directory entry before every File entry, and    *)
(* within each kind the lower-cased names do not decrease; the children    *)
(* b.txt, A (a folder), .hidden and a.txt are listed as A, a.txt, b.txt    *)
(* when hidden files are off.                                              *)
C4_SortInvariant ==
    ~error.some =>
        /\ \A i, j \in 1..Len(entries) :
              (entries[i].meta = "dir" /\ entries[j].meta # "dir") => i < j
        /\ \A i, j \in 1..Len(entries) :
              (i < j /\ (entries[i].meta = "dir") = (entries[j].meta = "dir"))
                  => str_cmp(SortKey(entries[i]), SortKey(entries[j])) <= 0
        /\ ( /\ ~show_hidden
             /\ fs[current_dir].ok
             /\ {k.name : k \in {fs[current_dir].kids[i] : i \in 1..Len(fs[current_dir].kids)}}
                    = {N_b_txt, N_A, N_dot_hidden, N_a_txt}
             /\ \E i \in 1..4 : fs[current_dir].kids[i] = Entry(N_A, "dir")
             /\ \E i \in 1..4 : fs[current_dir].kids[i] = Entry(N_a_txt, "file")
             /\ \E i \in 1..4 : fs[current_dir].kids[i] = Entry(N_b_txt, "file") )
           => [i \in 1..Len(entries) |-> entries[i].name] = <<N_A, N_a_txt, N_b_txt>>

(* the children of the scenario, in the order of the spec, scanned again   *)
(* with hidden files off                                                   *)
C4_Witness ==
    /\ op.name = "toggle_hidden"
    /\ ~show_hidden
    /\ fs[current_dir].ok
    /\ [i \in 1..Len(fs[current_dir].kids) |-> fs[current_dir].kids[i].name]
           = <<N_b_txt, N_A, N_dot_hidden, N_a_txt>>
    /\ [i \in 1..Len(entries) |-> entries[i]]
           = <<Entry(N_A, "dir"), Entry(N_a_txt, "file"), Entry(N_b_txt, "file")>>

(* C5: a scan with show_hidden off returns no name that starts with '.',   *)
(* and a scan with it on returns those entries and, besides them, exactly  *)
(* the children whose names start with '.'.                                *)
C5_HiddenFilter ==
    LET off == read_dir(fs, current_dir, FALSE).entries
        on  == read_dir(fs, current_dir, TRUE).entries
    IN  /\ (~show_hidden /\ ~error.some) =>
               \A i \in 1..Len(entries) : ~starts_with_dot(ListedName(entries[i]))
        /\ \A i \in 1..Len(off) : InListing(off[i], on)
        /\ \A i \in 1..Len(on) :
               ~InListing(on[i], off) <=> starts_with_dot(ListedName(on[i]))

(***************************************************************************)
(* The settings store on its own: sessions that start with any settings    *)
(* file, save their settings at the end of a frame, and start again.       *)
(***************************************************************************)
Line(key, value) == key \o <<"=">> \o value

(* The lines a settings file is made of. *)
CfgLines ==
    { Line(K_ui_scale, <<"1", ".", "5">>),
      Line(K_ui_scale, <<"a", "b", "c">>),
      Line(K_ui_scale, <<"N", "a", "N">>),
      Line(K_ui_scale, <<"2", "=", "3">>),
      <<" ">> \o Line(K_ui_scale, <<"2">>),
      K_ui_scale,
      Line(K_max_items_per_row, <<"4">>),
      Line(K_max_items_per_row, <<"9">>),
      Line(K_max_items_per_row, <<"-", "1">>),
      Line(K_max_items_per_row, <<"3", ".", "0">>),
      Line(K_show_hidden, <<"t", "r", "u", "e">>),
      Line(K_show_hidden, <<"T", "R", "U", "E">>),
      Line(K_show_scanlines, <<"t", "r", "u", "e", "\r">>),
      Line(K_horizontal_spacing, <<"0", ".", "2", "5">>),
      Line(K_vertical_spacing, <<"1", "e", "1">>),
      Line(K_vertical_spacing, <<" ", "2">>),
      Line(<<"t", "h", "e", "m", "e">>, <<"d", "a", "r", "k">>),
      <<>> }

RECURSIVE LineSeqs(_)
LineSeqs(n) ==
    IF n = 0 THEN {<<>>}
    ELSE LineSeqs(n - 1) \cup
         {Append(ls, l) : ls \in {q \in LineSeqs(n - 1) : Len(q) = n - 1}, l \in CfgLines}

RECURSIVE JoinLines(_)
JoinLines(ls) ==
    IF ls = <<>> THEN <<>> ELSE Head(ls) \o <<"\n">> \o JoinLines(Tail(ls))

(* The settings files: none, or at most MaxLines lines. *)
CfgFiles == {None} \cup {Some(JoinLines(ls)) : ls \in LineSeqs(MaxLines)}

(* A frame of DataraApp::update in which nothing is clicked. *)
SaveFrame ==
    /\ UNCHANGED <<fs, navVars, cfgVars, mqVars, sizeVars>>
    /\ SaveSettings
    /\ op' = CfgCall("save_settings")
    /\ probe' = NoProbe

(* The session ends and the next one starts: main calls DataraApp::new. *)
Restart ==
    LET app == new(fs, current_dir, file)
    IN  /\ UNCHANGED <<fs, file, mqVars, sizeVars>>
        /\ saved' = FALSE
        /\ current_dir' = app.current_dir
        /\ entries' = app.entries
        /\ error' = app.error
        /\ history' = app.history
        /\ future' = app.future
        /\ ui_scale' = app.config.ui_scale
        /\ max_items_per_row' = app.config.max_items_per_row
        /\ show_scanlines' = app.config.show_scanlines
        /\ show_hidden' = app.config.show_hidden
        /\ horizontal_spacing' = app.config.horizontal_spacing
        /\ vertical_spacing' = app.config.vertical_spacing
        /\ op' = CfgCall("restart")
        /\ probe' = NoProbe

InitCfg ==
    /\ fs = Tree
    /\ \E contents \in CfgFiles : New(<<>>, contents)
    /\ NoLabel
    /\ NoSize
    /\ op = NoOp
    /\ probe = NoProbe

NextCfg ==
    \/ SaveFrame
    \/ Restart

SpecCfg == InitCfg /\ [][NextCfg]_vars

(***************************************************************************)
(* The claims about the settings store.                                    *)
(***************************************************************************)
IsNumber(v) == v.k # "nan"

ValidConfig(c) ==
    /\ c.max_items_per_row \in 2..5
    /\ IsNumber(c.ui_scale)
    /\ IsNumber(c.horizontal_spacing)
    /\ IsNumber(c.vertical_spacing)

SameConfig(c, d) ==
    /\ f32_eq(c.ui_scale, d.ui_scale)
    /\ c.max_items_per_row = d.max_items_per_row
    /\ c.show_scanlines = d.show_scanlines
    /\ c.show_hidden = d.show_hidden
    /\ f32_eq(c.horizontal_spacing, d.horizontal_spacing)
    /\ f32_eq(c.vertical_spacing, d.vertical_spacing)

(* C6: a session that starts from the file a valid configuration was saved *)
(* to has that configuration, in all six fields.                           *)
C6_ConfigRoundTrip ==
    ( /\ op.name = "restart"
      /\ ValidConfig(op.pre.config)
      /\ op.pre.file = Some(settings_text(op.pre.config)) )
    => SameConfig(Config, op.pre.config)

C6_Witness ==
    /\ op.name = "restart"
    /\ op.pre.file = Some(settings_text(op.pre.config))
    /\ op.pre.config.ui_scale = Dec(15, 1)
    /\ op.pre.config.horizontal_spacing = Dec(25, 2)
    /\ SameConfig(Config, op.pre.config)

(* The lines of the file that set a field: key, '=', a value that parses. *)
KeyOf(line) == SubSeq(line, 1, find(line, "=", 1) - 1)
ValueOf(line) == SubSeq(line, find(line, "=", 1) + 1, Len(line))
Setting(ls, key, Parses(_)) ==
    {i \in 1..Len(ls) : find(ls[i], "=", 1) > 0 /\ KeyOf(ls[i]) = key /\ Parses(ValueOf(ls[i]))}
Last(S) == CHOOSE i \in S : \A j \in S : j <= i

F32Parses(v) == parse_f32(v).ok
I32Parses(v) == parse_i32(v).ok
BoolParses(v) == parse_bool(v).ok

Loaded(ls, key, Parses(_), Value(_), default) ==
    IF Setting(ls, key, Parses) = {} THEN default
    ELSE Value(ValueOf(ls[Last(Setting(ls, key, Parses))]))

F32Value(v) == parse_f32(v).val
I32Clamped(v) ==
    IF parse_i32(v).val < 2 THEN 2 ELSE IF parse_i32(v).val > 5 THEN 5 ELSE parse_i32(v).val
BoolValue(v) == parse_bool(v).val

(* C10: whatever the settings file holds, a session starts with every      *)
(* field at its default (1.0, 3, false, false, 16.0, 12.0) unless a line   *)
(* of the file names the field and its value parses; such a field has the  *)
(* parsed value (the last one; max_items_per_row clamped to 2..5).  Lines  *)
(* without '=', unknown keys and values that do not parse change nothing.  *)
C10_LoadTolerant ==
    op.name \in {"new", "restart"} =>
        IF ~file.some
        THEN /\ ui_scale = Dec(1, 0)
             /\ max_items_per_row = 3
             /\ show_scanlines = FALSE
             /\ show_hidden = FALSE
             /\ horizontal_spacing = Dec(16, 0)
             /\ vertical_spacing = Dec(12, 0)
        ELSE /\ ui_scale = Loaded(lines(file.val), K_ui_scale, F32Parses, F32Value, Dec(1, 0))
             /\ max_items_per_row =
                    Loaded(lines(file.val), K_max_items_per_row, I32Parses, I32Clamped, 3)
             /\ show_scanlines =
                    Loaded(lines(file.val), K_show_scanlines, BoolParses, BoolValue, FALSE)
             /\ show_hidden =
                    Loaded(lines(file.val), K_show_hidden, BoolParses, BoolValue, FALSE)
             /\ horizontal_spacing =
                    Loaded(lines(file.val), K_horizontal_spacing, F32Parses, F32Value, Dec(16, 0))
             /\ vertical_spacing =
                    Loaded(lines(file.val), K_vertical_spacing, F32Parses, F32Value, Dec(12, 0))

(* a file whose first line sets ui_scale and whose second gives it a value *)
(* that does not parse                                                      *)
C10_Witness ==
    /\ op.name = "new"
    /\ file = Some(JoinLines(<<Line(K_ui_scale, <<"1", ".", "5">>),
                               Line(K_ui_scale, <<"a", "b", "c">>)>>))
    /\ ui_scale = Dec(15, 1)
    /\ max_items_per_row = 3

(***************************************************************************)
(* f32 arithmetic of the marquee layout (get_scrolling_text and            *)
(* truncate_text).  A value is zero or m * 2^e with 2^23 <= m < 2^24: the  *)
(* 24-bit significand and the exponent of its last bit.  The layout works  *)
(* on finite values >= 0 in the normal range (widths, font sizes and the   *)
(* clock), and every operation rounds to nearest, ties to even, as the     *)
(* IEEE 754 operations of Rust's f32 do.  Significands are multiplied in   *)
(* 12-bit halves so that every intermediate stays below 2^31.              *)
(***************************************************************************)
P12 == 2^12
P22 == 2^22
P23 == 2^23
P24 == 2^24

F32(m, e) == [m |-> m, e |-> e]
Zero == F32(0, 0)

(* The value n * 2^e, n < 2^24, which needs no rounding. *)
RECURSIVE exact(_, _)
exact(n, e) ==
    IF n = 0 THEN Zero
    ELSE IF n < P23 THEN exact(2 * n, e - 1)
    ELSE F32(n, e)

(* usize as f32, for counts below 2^24. *)
from_usize(n) == exact(n, 0)

(* q with the remainder r out of 2 * half discarded: round to nearest even.*)
nearest(q, r, half) ==
    IF r > half \/ (r = half /\ q % 2 = 1) THEN q + 1 ELSE q

(* A rounded significand may have reached 2^24. *)
pack(m, e) == IF m = P24 THEN F32(P23, e + 1) ELSE F32(m, e)

RECURSIVE bit_len(_)
bit_len(n) == IF n = 0 THEN 0 ELSE 1 + bit_len(n \div 2)

(* The f32 nearest to n * 2^e, n < 2^31, dropping the k lowest bits. *)
round_drop(n, e, k) ==
    pack(nearest(n \div 2^k, n % 2^k, 2^(k - 1)), e + k)

round_int(n, e) ==
    IF bit_len(n) <= 24 THEN exact(n, e)
    ELSE round_drop(n, e, bit_len(n) - 24)

f32_lt(a, b) ==
    IF a.m = 0 \/ b.m = 0 THEN a.m < b.m
    ELSE a.e < b.e \/ (a.e = b.e /\ a.m < b.m)

f32_le(a, b) == ~f32_lt(b, a)

(* x * y for two significands, as hi * 2^24 + lo. *)
mul_mid(x, y) == (x \div P12) * (y % P12) + (x % P12) * (y \div P12)
mul_low(x, y) == (mul_mid(x, y) % P12) * P12 + (x % P12) * (y % P12)
mul_hi(x, y) ==
    (x \div P12) * (y \div P12) + mul_mid(x, y) \div P12 + mul_low(x, y) \div P24
mul_lo(x, y) == mul_low(x, y) % P24

mul_round(hi, lo, e) ==
    IF hi >= P23 THEN pack(nearest(hi, lo, P23), e + 24)
    ELSE pack(nearest(2 * hi + lo \div P23, lo % P23, P22), e + 23)

(* a * b *)
f32_mul(a, b) ==
    IF a.m = 0 \/ b.m = 0 THEN Zero
    ELSE mul_round(mul_hi(a.m, b.m), mul_lo(a.m, b.m), a.e + b.e)

(* n more quotient bits of r / d, r < d: the quotient and the remainder. *)
RECURSIVE div_bits(_, _, _, _)
div_bits(r, d, n, acc) ==
    IF n = 0 THEN [q |-> acc, r |-> r]
    ELSE IF 2 * r >= d THEN div_bits(2 * r - d, d, n - 1, 2 * acc + 1)
    ELSE div_bits(2 * r, d, n - 1, 2 * acc)

div_round(qr, d, e) == pack(nearest(qr.q, 2 * qr.r, d), e)

(* a / b, b # 0 *)
f32_div(a, b) ==
    IF a.m = 0 THEN Zero
    ELSE IF a.m >= b.m
    THEN div_round(div_bits(a.m - b.m, b.m, 23, 1), b.m, a.e - b.e - 23)
    ELSE div_round(div_bits(a.m, b.m, 24, 0), b.m, a.e - b.e - 24)

(* n shifted right by d bits, the bits shifted out kept as a sticky last   *)
(* bit. *)
shr_sticky(n, d) ==
    IF d >= 28 THEN 1
    ELSE IF n % 2^d # 0 /\ (n \div 2^d) % 2 = 0 THEN n \div 2^d + 1
    ELSE n \div 2^d

(* a - b for a >= b: three guard bits below the significand of a. *)
f32_sub(a, b) ==
    IF b.m = 0 THEN a
    ELSE round_int(8 * a.m - shr_sticky(8 * b.m, a.e - b.e), a.e - 3)

add_ordered(a, b) ==
    IF b.m = 0 THEN a
    ELSE round_int(8 * a.m + shr_sticky(8 * b.m, a.e - b.e), a.e - 3)

(* a + b *)
f32_add(a, b) == IF f32_lt(a, b) THEN add_ordered(b, a) ELSE add_ordered(a, b)

(* a % b (fmod, which is exact) for b a power of two, as cycle_time is. *)
f32_rem(a, b) ==
    IF f32_lt(a, b) THEN a
    ELSE IF a.e >= b.e + 23 THEN Zero
    ELSE exact(a.m % 2^(b.e + 23 - a.e), a.e)

(* a as usize: the integer part, for values below 2^24. *)
to_usize(a) ==
    IF a.e >= 0 THEN a.m * 2^a.e
    ELSE IF a.e < -23 THEN 0
    ELSE a.m \div 2^(0 - a.e)

(* A decimal literal n/d of the source, converted as rustc converts it: to *)
(* the nearest f32. *)
literal(n, d) == f32_div(from_usize(n), from_usize(d))

(***************************************************************************)
(* The marquee text layout.  A label is the sequence of its chars.  The    *)
(* functions are called with font_size > 0 (15.0 or 11.0 times ui_scale),  *)
(* max_width >= 0 and time >= 0.                                           *)
(***************************************************************************)
ELLIPSIS == <<".", ".", ".">>

(* let char_width = font_size * 0.6; *)
char_width(fsize) == f32_mul(fsize, literal(6, 10))

(* let max_chars = (max_width / char_width) as usize; *)
max_chars(width, fsize) == to_usize(f32_div(width, char_width(fsize)))

saturating_sub(a, b) == IF a >= b THEN a - b ELSE 0

(* chars[from..to], which panics when the range does not lie in the slice. *)
Panic == [ok |-> FALSE]
slice(chars, from, to) ==
    IF from <= to /\ to <= Len(chars) THEN Ok(SubSeq(chars, from + 1, to))
    ELSE Panic

(* A truncate_text that leaves no room for the ellipsis. *)
truncate_text_no_room(chars, width, fsize) ==
    IF Len(chars) <= max_chars(width, fsize) THEN Ok(chars)
    ELSE IF slice(chars, 0, max_chars(width, fsize)).ok
    THEN Ok(slice(chars, 0, max_chars(width, fsize)).val \o ELLIPSIS)
    ELSE Panic

truncate_text(chars, width, fsize) ==
    IF Len(chars) <= max_chars(width, fsize) THEN Ok(chars)
    ELSE IF slice(chars, 0, saturating_sub(max_chars(width, fsize), 3)).ok
    THEN Ok(slice(chars, 0, saturating_sub(max_chars(width, fsize), 3)).val \o ELLIPSIS)
    ELSE Panic

cycle_time == literal(4, 1)

total_text_width(chars, fsize) == f32_mul(from_usize(Len(chars)), char_width(fsize))
visible_width(width, fsize) ==
    f32_mul(from_usize(max_chars(width, fsize)), char_width(fsize))
scroll_range(chars, width, fsize) ==
    f32_sub(total_text_width(chars, fsize), visible_width(width, fsize))

normalized_time(t) == f32_div(f32_rem(t, cycle_time), cycle_time)

scroll_factor(nt) ==
    IF f32_lt(nt, literal(5, 10)) THEN f32_mul(nt, literal(2, 1))
    ELSE f32_sub(literal(1, 1), f32_mul(f32_sub(nt, literal(5, 10)), literal(2, 1)))

scroll_offset(chars, width, fsize, t) ==
    f32_mul(scroll_factor(normalized_time(t)), scroll_range(chars, width, fsize))

start_char(chars, width, fsize, t) ==
    to_usize(f32_div(scroll_offset(chars, width, fsize, t), char_width(fsize)))

(* The window of visible chars from start, wrapping around the end. *)
scroll_window(chars, start, visible) ==
    IF start + visible <= Len(chars) THEN slice(chars, start, start + visible)
    ELSE IF start > Len(chars) THEN Panic
    ELSE Ok(slice(chars, start, Len(chars)).val
            \o slice(chars, 0, visible - (Len(chars) - start)).val)

(* get_scrolling_text(text, max_width, font_size, _, is_hovered, time).0   *)
(* (the second component is always 0.0).                                   *)
get_scrolling_text(chars, width, fsize, hovered, t) ==
    IF Len(chars) <= max_chars(width, fsize) THEN Ok(chars)
    ELSE IF hovered
    THEN scroll_window(chars, start_char(chars, width, fsize, t), max_chars(width, fsize))
    ELSE truncate_text(chars, width, fsize)

(***************************************************************************)
(* The marquee runs: one item of the listing is laid out frame after frame.*)
(* Its label, width and font size are those of the first frame; the        *)
(* pointer may move on and off the item, and the clock may advance by one  *)
(* cycle.                                                                  *)
(***************************************************************************)
Alphabet == <<"a", "b", "c", "d", "e", "f", "g", "h", "i", "j", "k", "l">>
Labels == {SubSeq(Alphabet, 1, n) : n \in 0..MaxChars}

(* 66.0, 9.5, 18.5 and 27.0 *)
Widths == {exact(66, 0), exact(19, -1), exact(37, -1), exact(27, 0)}

(* font_size = 15.0 * ui_scale and meta_font_size = 11.0 * ui_scale, at    *)
(* ui_scale 1.0, and 15.0 * 1.5 *)
FontSizes == {exact(15, 0), exact(11, 0), exact(45, -1)}

(* 0, 0.5, the f32 just below 1, 1, 2, 3, 3.5 and 4 seconds *)
Times ==
    {Zero, exact(1, -1), exact(P24 - 1, -24), exact(1, 0), exact(2, 0),
     exact(3, 0), exact(7, -1), exact(4, 0)}

MqCall(name) ==
    [name |-> name, path |-> None, push |-> FALSE,
     pre |-> [time |-> time, display |-> display]]

(* A frame of DataraApp::update lays the item out, the pointer on it or not.*)
Paint(hovered) ==
    /\ is_hovered' = hovered
    /\ display' = Some(get_scrolling_text(text, max_width, font_size, hovered, time))
    /\ op' = MqCall("paint")
    /\ probe' = NoProbe
    /\ UNCHANGED <<fs, navVars, cfgVars, text, max_width, font_size, time, sizeVars>>
    /\ SaveSettings

(* The frame one cycle_time after a frame that was painted: i.time has     *)
(* grown by 4.0 and is converted to f32.                                   *)
CycleLater ==
    /\ display.some
    /\ f32_lt(time, from_usize(MaxTime))
    /\ time' = f32_add(time, cycle_time)
    /\ display' = Some(get_scrolling_text(text, max_width, font_size, is_hovered, time'))
    /\ op' = MqCall("cycle_later")
    /\ probe' = NoProbe
    /\ UNCHANGED <<fs, navVars, cfgVars, text, max_width, font_size, is_hovered, sizeVars>>
    /\ SaveSettings

InitMarquee ==
    /\ fs = Tree
    /\ New(<<>>, None)
    /\ text \in Labels
    /\ max_width \in Widths
    /\ font_size \in FontSizes
    /\ time \in Times
    /\ is_hovered = FALSE
    /\ display = None
    /\ NoSize
    /\ op = NoOp
    /\ probe = NoProbe

NextMarquee ==
    \/ \E hovered \in BOOLEAN : Paint(hovered)
    \/ CycleLater

SpecMarquee == InitMarquee /\ [][NextMarquee]_vars

(***************************************************************************)
(* The claims about the marquee layout.                                    *)
(***************************************************************************)
(* m * 2^e with the trailing zero bits of m moved into e. *)
RECURSIVE odd_part(_, _)
odd_part(m, e) ==
    IF m # 0 /\ m % 2 = 0 THEN odd_part(m \div 2, e + 1) ELSE F32(m, e)

Least(i, j) == IF i < j THEN i ELSE j

(* j * a <= k * b in exact arithmetic, for values of few significant bits. *)
scaled_le(j, a, k, b) ==
    j * a.m * 2^(a.e - Least(a.e, b.e)) <= k * b.m * 2^(b.e - Least(a.e, b.e))

(* char_count(text) * f * 0.6 <= w, as numbers: 3 * n * f <= 5 * w. *)
FitsWidth(chars, fsize, width) ==
    scaled_le(3 * Len(chars), odd_part(fsize.m, fsize.e),
              5, odd_part(width.m, width.e))

(* The same condition evaluated in f32, from left to right. *)
FitsWidthF32(chars, fsize, width) ==
    f32_le(f32_mul(f32_mul(from_usize(Len(chars)), fsize), literal(6, 10)), width)

Oversized == Len(text) > max_chars(max_width, font_size)

(* C7: marquee fit-passthrough.  Whenever char_count(text) * f * 0.6 <= w, *)
(* the layout returns the text unchanged, hovered or not and at any time.  *)
(* A text counts as fitting here only if the condition holds both as a     *)
(* statement about numbers and as f32 arithmetic evaluates it.             *)
C7_FitPassthrough ==
    (/\ display.some
     /\ FitsWidth(text, font_size, max_width)
     /\ FitsWidthF32(text, font_size, max_width))
        => display.val = Ok(text)

(* C8: marquee periodicity.  For an oversized hovered text the layout one  *)
(* cycle (4.0 seconds) after a frame is the layout of that frame; the      *)
(* frames at 0 and at 4.0 both show the window that starts at character 0. *)
C8_Periodicity ==
    (op.name = "cycle_later" /\ is_hovered /\ Oversized)
        => /\ display = op.pre.display
           /\ op.pre.time = Zero =>
                display.val = Ok(SubSeq(text, 1, max_chars(max_width, font_size)))

(* C17: static truncation.  For an oversized text that is not hovered,     *)
(* with N the number of characters that fit (the quotient                  *)
(* max_width / (font_size * 0.6) as the layout computes it), the layout    *)
(* returns the first max(N - 3, 0) characters followed by "...", and the   *)
(* same one cycle later.                                                   *)
C17_StaticTruncation ==
    (display.some /\ ~is_hovered /\ Oversized) =>
        /\ display.val =
              Ok(SubSeq(text, 1, IF max_chars(max_width, font_size) >= 3
                                 THEN max_chars(max_width, font_size) - 3 ELSE 0)
                 \o <<".", ".", ".">>)
        /\ op.name = "cycle_later" => display = op.pre.display

(* ten characters where seven fit, four of them shown, at two times *)
C17_Witness ==
    /\ op.name = "cycle_later"
    /\ ~is_hovered
    /\ Len(text) = 10
    /\ max_chars(max_width, font_size) = 7
    /\ display.val = Ok(<<"a", "b", "c", "d", ".", ".", ".">>)

(* C20: for an oversized, hovered text the start index satisfies           *)
(* start_char + visible_chars <= char_count, so the output is a window of  *)
(* exactly visible_chars consecutive characters and no slice is out of     *)
(* range; the window starts at 0 at phase 0 and at                         *)
(* char_count - visible_chars at phase 0.5.                                *)
C20_WindowInRange ==
    (display.some /\ is_hovered /\ Oversized) =>
        /\ start_char(text, max_width, font_size, time)
              + max_chars(max_width, font_size) <= Len(text)
        /\ display.val =
              Ok(SubSeq(text,
                        start_char(text, max_width, font_size, time) + 1,
                        start_char(text, max_width, font_size, time)
                           + max_chars(max_width, font_size)))
        /\ normalized_time(time) = Zero =>
              start_char(text, max_width, font_size, time) = 0
        /\ normalized_time(time) = exact(1, -1) =>
              start_char(text, max_width, font_size, time)
                 = Len(text) - max_chars(max_width, font_size)

(***************************************************************************)
(* The settings window: the frames of DataraApp::update in which one of    *)
(* its widgets is used.  Every frame ends with save_settings.              *)
(***************************************************************************)
(* egui::Slider::new(&mut self.max_items_per_row, 2..=5) *)
MaxItemsRange == 2..5

(* A value of the spacing sliders (0.0..=50.0) other than the defaults. *)
Spacings == {Dec(375, 1)}

SetMaxItems(v) ==
    /\ max_items_per_row' = v
    /\ UNCHANGED <<fs, navVars, ui_scale, show_scanlines, show_hidden,
                   horizontal_spacing, vertical_spacing, mqVars, sizeVars>>
    /\ SaveSettings
    /\ op' = WidgetCall("set_max_items", Some(v))
    /\ probe' = NoProbe

SetHorizontalSpacing(v) ==
    /\ horizontal_spacing' = v
    /\ UNCHANGED <<fs, navVars, ui_scale, max_items_per_row, show_scanlines,
                   show_hidden, vertical_spacing, mqVars, sizeVars>>
    /\ SaveSettings
    /\ op' = WidgetCall("set_horizontal_spacing", Some(v))
    /\ probe' = NoProbe

SetVerticalSpacing(v) ==
    /\ vertical_spacing' = v
    /\ UNCHANGED <<fs, navVars, ui_scale, max_items_per_row, show_scanlines,
                   show_hidden, horizontal_spacing, mqVars, sizeVars>>
    /\ SaveSettings
    /\ op' = WidgetCall("set_vertical_spacing", Some(v))
    /\ probe' = NoProbe

(* The "CRT Scanlines" checkbox. *)
ToggleScanlines ==
    /\ show_scanlines' = ~show_scanlines
    /\ UNCHANGED <<fs, navVars, ui_scale, max_items_per_row, show_hidden,
                   horizontal_spacing, vertical_spacing, mqVars, sizeVars>>
    /\ SaveSettings
    /\ op' = WidgetCall("toggle_scanlines", None)
    /\ probe' = NoProbe

(* The "Reset to Defaults" button. *)
ResetToDefaults ==
    /\ ui_scale' = Dec(1, 0)
    /\ max_items_per_row' = 3
    /\ horizontal_spacing' = Dec(16, 0)
    /\ vertical_spacing' = Dec(12, 0)
    /\ show_scanlines' = FALSE
    /\ show_hidden' = FALSE
    /\ entries' = read_dir(fs, current_dir, FALSE).entries
    /\ error' = read_dir(fs, current_dir, FALSE).error
    /\ UNCHANGED <<fs, current_dir, history, future, mqVars, sizeVars>>
    /\ SaveSettings
    /\ op' = WidgetCall("reset_to_defaults", None)
    /\ probe' = NoProbe

(* The lines of the settings files the window runs start with: values of   *)
(* max_items_per_row inside, below and above 2..=5 and beyond i32.         *)
WindowLines ==
    { Line(K_max_items_per_row, <<"4">>),
      Line(K_max_items_per_row, <<"0">>),
      Line(K_max_items_per_row, <<"-", "7">>),
      Line(K_max_items_per_row, <<"1", "0", "0", "0">>),
      Line(K_max_items_per_row, <<"-", "2", "1", "4", "7", "4", "8", "3", "6", "4", "8">>),
      Line(K_max_items_per_row, <<"9", "9", "9", "9", "9", "9", "9", "9", "9", "9">>),
      Line(K_show_hidden, <<"t", "r", "u", "e">>) }

WindowFiles == {None} \cup {Some(JoinLines(<<l>>)) : l \in WindowLines}

InitWindow ==
    /\ fs = Tree
    /\ \E contents \in WindowFiles : New(<<>>, contents)
    /\ NoLabel
    /\ NoSize
    /\ op = NoOp
    /\ probe = NoProbe

NextWindow ==
    \/ \E v \in MaxItemsRange : SetMaxItems(v)
    \/ \E v \in Spacings : SetHorizontalSpacing(v)
    \/ \E v \in Spacings : SetVerticalSpacing(v)
    \/ ToggleScanlines
    \/ ToggleHidden
    \/ ResetToDefaults
    \/ SaveFrame

SpecWindow == InitWindow /\ [][NextWindow]_vars

(***************************************************************************)
(* The claims about the settings window.                                   *)
(***************************************************************************)
(* C15: max_items_per_row is in 2..=5 in every state: it starts at 3, the  *)
(* load clamps every integer it parses, the slider gives 2..=5 and Reset   *)
(* to Defaults sets 3.                                                     *)
C15_MaxItemsInRange ==
    /\ max_items_per_row \in 2..5
    /\ op.name = "reset_to_defaults" => max_items_per_row = 3
    /\ (op.name = "new" /\ ~file.some) => max_items_per_row = 3

(* the settings file says -2147483648 and the field is 2 *)
C15_Witness ==
    /\ op.name = "new"
    /\ file = Some(JoinLines(<<Line(K_max_items_per_row,
                   <<"-", "2", "1", "4", "7", "4", "8", "3", "6", "4", "8">>)>>))
    /\ max_items_per_row = 2

FrameNames ==
    {"set_max_items", "set_horizontal_spacing", "set_vertical_spacing",
     "toggle_scanlines", "toggle_hidden", "reset_to_defaults", "save_settings"}

(* C18: at the end of every frame the settings file holds the settings in  *)
(* memory if the write succeeded; if it failed the file is what it was,    *)
(* the change the frame made to the settings stands and no error is set.   *)
C18_WriteThrough ==
    [][op'.name \in FrameNames =>
        /\ saved' => file' = Some(settings_text(Config'))
        /\ ~saved' => file' = file
        /\ op'.name = "set_max_items" =>
              Config' = [Config EXCEPT !.max_items_per_row = op'.path.val]
        /\ op'.name = "set_horizontal_spacing" =>
              Config' = [Config EXCEPT !.horizontal_spacing = op'.path.val]
        /\ op'.name = "set_vertical_spacing" =>
              Config' = [Config EXCEPT !.vertical_spacing = op'.path.val]
        /\ op'.name = "toggle_scanlines" =>
              Config' = [Config EXCEPT !.show_scanlines = ~@]
        /\ op'.name = "toggle_hidden" =>
              Config' = [Config EXCEPT !.show_hidden = ~@]
        /\ op'.name = "reset_to_defaults" => Config' = Defaults
        /\ op'.name = "save_settings" => Config' = Config
        /\ op'.name \notin {"toggle_hidden", "reset_to_defaults"} => error' = error]_vars

(* a slider change that was written over an older file *)
C18_Witness ==
    /\ op.name = "set_max_items"
    /\ saved
    /\ max_items_per_row = 5
    /\ horizontal_spacing = Dec(375, 1)
    /\ show_scanlines
    /\ file = Some(settings_text(Config))

(***************************************************************************)
(* format_size.  A u64 is the sequence of its bits, the highest first and  *)
(* without leading zeros (0 is the empty sequence), so that sizes up to    *)
(* 2^64 - 1 and their conversion to f64 can be followed bit by bit.  The   *)
(* f64 values of format_size are integers or integers divided by a power   *)
(* of two, and the division by KB, MB and GB is exact.                     *)
(***************************************************************************)
U64_BITS == 64
F64_MANTISSA_BITS == 53

RECURSIVE to_bits(_)
to_bits(n) == IF n = 0 THEN <<>> ELSE to_bits(n \div 2) \o <<n % 2>>

RECURSIVE ones(_)
ones(n) == IF n <= 0 THEN <<>> ELSE <<1>> \o ones(n - 1)

RECURSIVE zero_bits(_)
zero_bits(n) == IF n <= 0 THEN <<>> ELSE <<0>> \o zero_bits(n - 1)

(* bits + 1, for bits of a fixed width that are not all ones *)
RECURSIVE increment(_)
increment(bits) ==
    IF bits[Len(bits)] = 0 THEN SubSeq(bits, 1, Len(bits) - 1) \o <<1>>
    ELSE increment(SubSeq(bits, 1, Len(bits) - 1)) \o <<0>>

all_ones(bits) == \A i \in 1..Len(bits) : bits[i] = 1
any_one(bits) == \E i \in 1..Len(bits) : bits[i] = 1

(* The first 53 bits rounded by the bits after them: to nearest, ties to   *)
(* even. *)
round_up(keep, rest) ==
    /\ rest[1] = 1
    /\ any_one(Tail(rest)) \/ keep[Len(keep)] = 1

rounded(keep, rest) ==
    IF ~round_up(keep, rest) THEN keep \o zero_bits(Len(rest))
    ELSE IF all_ones(keep) THEN <<1>> \o zero_bits(Len(keep) + Len(rest))
    ELSE increment(keep) \o zero_bits(Len(rest))

(* bytes as f64: the integer that the f64 is *)
as_f64(bits) ==
    IF Len(bits) <= F64_MANTISSA_BITS THEN bits
    ELSE rounded(SubSeq(bits, 1, F64_MANTISSA_BITS),
                 SubSeq(bits, F64_MANTISSA_BITS + 1, Len(bits)))

(* (b / 2^k) as u64 for an integer f64 b: the division is exact and the    *)
(* cast drops the fraction *)
div_pow2_as_u64(b, k) == SubSeq(b, 1, Len(b) - k)

(* b >= 2^k *)
ge_pow2(b, k) == Len(b) > k

(* Display for u64: the decimal digits, from the lowest, of 2 * d + carry *)
RECURSIVE dec_double(_, _)
dec_double(d, carry) ==
    IF d = <<>> THEN (IF carry = 0 THEN <<>> ELSE <<carry>>)
    ELSE <<(2 * Head(d) + carry) % 10>>
         \o dec_double(Tail(d), (2 * Head(d) + carry) \div 10)

RECURSIVE to_decimal(_, _)
to_decimal(bits, acc) ==
    IF bits = <<>> THEN acc ELSE to_decimal(Tail(bits), dec_double(acc, Head(bits)))

RECURSIVE digit_chars(_)
digit_chars(d) ==
    IF d = <<>> THEN <<>> ELSE digit_chars(Tail(d)) \o <<Digits[Head(d) + 1]>>

fmt_u64(bits) == IF bits = <<>> THEN <<"0">> ELSE digit_chars(to_decimal(bits, <<>>))

KB_LOG2 == 10
MB_LOG2 == 20
GB_LOG2 == 30

(* DataraApp::format_size *)
format_size(b) ==
    IF ge_pow2(as_f64(b), GB_LOG2)
    THEN fmt_u64(div_pow2_as_u64(as_f64(b), GB_LOG2)) \o <<" ", "G", "B">>
    ELSE IF ge_pow2(as_f64(b), MB_LOG2)
    THEN fmt_u64(div_pow2_as_u64(as_f64(b), MB_LOG2)) \o <<" ", "M", "B">>
    ELSE IF ge_pow2(as_f64(b), KB_LOG2)
    THEN fmt_u64(div_pow2_as_u64(as_f64(b), KB_LOG2)) \o <<" ", "K", "B">>
    ELSE fmt_u64(b) \o <<" ", "B">>

(* The sizes of the runs: 2^(i+j) + 2^j - 1 for every width up to 64 bits  *)
(* (the powers of two, the numbers just below them, and the numbers just   *)
(* below a multiple of a power of two), 0, and the sizes of the scenario.  *)
Sizes ==
    {<<1>> \o zero_bits(i) \o ones(j) : i \in 0..(U64_BITS - 1), j \in 0..(U64_BITS - 1)}
    \cup {to_bits(n) : n \in {0, 500, 1000, 1500, 2048, 1048575, 1500000}}

SizesU64 == {b \in Sizes : Len(b) <= U64_BITS}

(* A frame of DataraApp::update shows the metadata of the entry. *)
ShowSize ==
    /\ size_str' = Some(format_size(bytes))
    /\ UNCHANGED <<fs, navVars, cfgVars, mqVars, bytes>>
    /\ SaveSettings
    /\ op' = WidgetCall("format_size", None)
    /\ probe' = NoProbe

InitSize ==
    /\ fs = Tree
    /\ New(<<>>, None)
    /\ NoLabel
    /\ bytes \in SizesU64
    /\ size_str = None
    /\ op = NoOp
    /\ probe = NoProbe

NextSize == ShowSize

SpecSize == InitSize /\ [][NextSize]_vars

(***************************************************************************)
(* The claims about format_size.                                           *)
(***************************************************************************)
(* floor(b / 2^k) *)
Floor(b, k) == SubSeq(b, 1, Len(b) - k)

(* C16: format_size(b) is "{b} B" for b < 1024, and otherwise              *)
(* floor(b / 1024^k) followed by KB, MB or GB for the largest k in 1..3    *)
(* with 1024^k <= b; format_size(2048) = "2 KB", format_size(500) =        *)
(* "500 B".                                                                *)
C16_FormatSize ==
    size_str.some =>
        /\ size_str.val =
              IF Len(bytes) > 30 THEN fmt_u64(Floor(bytes, 30)) \o <<" ", "G", "B">>
              ELSE IF Len(bytes) > 20 THEN fmt_u64(Floor(bytes, 20)) \o <<" ", "M", "B">>
              ELSE IF Len(bytes) > 10 THEN fmt_u64(Floor(bytes, 10)) \o <<" ", "K", "B">>
              ELSE fmt_u64(bytes) \o <<" ", "B">>
        /\ bytes = to_bits(2048) => size_str.val = <<"2", " ", "K", "B">>
        /\ bytes = to_bits(500) => size_str.val = <<"5", "0", "0", " ", "B">>

====
